---- MODULE Spec2Model ----
(***************************************************************************)
(* GraphManager (src/src/GraphManager.ts, first class, lines 16-374): the  *)
(* registry, the type index, the two adjacency indices and the listener    *)
(* registry, with the public mutation operations and the events each call  *)
(* emits (Spec); its two structure builders, getEdgeStructure and the      *)
(* asynchronous getNodeStructure (SpecStructure, SpecStructureFair); a     *)
(* getNodeStructure build with a removeNode between two of its             *)
(* continuations (SpecSnapshot); the indices as a listener reads them at   *)
(* each emit (SpecObserver); the debounced EventNode of                    *)
(* src/unnamed/part_001 (SpecEventNode), with a listener that calls        *)
(* setProps from inside the notification (SpecEventNodeListener,           *)
(* SpecEventNodeListenerFair); and the immediate EventNode of              *)
(* src/src/EventNode.ts (SpecImmediate).                                   *)
(*                                                                         *)
(* A JavaScript Set iterates in insertion order, so the adjacency sets,    *)
(* which the code iterates, are sequences without duplicates.  The type    *)
(* index buckets and the registry are never iterated by the manager; they  *)
(* are a set and a function.  A missing Map entry and an entry holding an  *)
(* empty Set are indistinguishable through every method (?.values() ?? [], *)
(* ?.delete, ?.has), so both are the empty collection.                     *)
(*                                                                         *)
(* An async function runs to its first await when it is called and is      *)
(* resumed, one continuation at a time, once the promise it awaits has     *)
(* settled.  getNodeProps may settle at any time, so the continuations of  *)
(* one getNodeStructure call are resumed in any order.                     *)
(***************************************************************************)
EXTENDS Integers, Sequences, FiniteSets, TLC

\* ---------------------------------------------------------------- bounds
\* most edges the graph holds when a call that adds nodes or edges returns
MaxEdges == 2
\* most edges of the graph the structure builders walk
MaxStructEdges == 3
\* most forwarding callbacks attached to one node object at a time
MaxListeners == 2
\* most (source, target) pairs one addEdges / removeEdges call ranges over
MaxBatch == 2
\* the deepest targetDepth / sourceDepth handed to getNodeStructure
MaxDepth == 1
\* the clock of the debounced notifier stops here
MaxTime == 4
\* largest emitDelay handed to setProps, in ticks of the clock
MaxDelay == 2
\* most setProps calls between two notifications
MaxBurst == 2
\* most setNodeProps calls made on the immediate notifier
MaxCalls == 4
\* the targetDepth of the snapshots built while the graph is being mutated
MaxSnapshotDepth == 2

\* ------------------------------------------------------- the node objects
\* Node objects are compared by reference; a1 and a2 are two objects that
\* answer the same id (express / expressCopy in the tests) with different
\* types, and a1 is the only EventEmitter (nodejs in the tests).
Objs == {"a1", "a2", "b"}
Undefined == "undefined"
Ids == {"a", "b"}
Types == {0, 10}

\* the depths getNodeStructure is called with: expansion disabled, depth 0,
\* and the deepest
Depths == {-1, 0, MaxDepth}

\* three objects of three different ids, for graphs with a 3-node cycle
StructObjs == {"a1", "b", "c"}
StructIds == {"a", "b", "c"}

\* a fourth object, for graphs where two paths of different length meet in a
\* node that has a neighbour further on: a1->b, a1->c, b->c, c->d
\* b and b2 are two objects of one id and one type (express / expressCopy in
\* the tests)
ObserverObjs == {"a1", "b", "b2"}

WideObjs == {"a1", "b", "c", "d"}
WideIds == {"a", "b", "c", "d"}
DiamondEdges == {<<"a1", "b">>, <<"a1", "c">>, <<"b", "c">>, <<"c", "d">>}

getNodeId(node) ==
  IF node \in {"a1", "a2"} THEN "a" ELSE IF node = "b2" THEN "b" ELSE node

nodeType(node) == IF node = "a1" THEN 0 ELSE 10

\* 'addListener' in node: the node is an EventEmitter
HasListenerApi(node) == node = "a1"

\* getNodeProps of a1 and b always yields a value (Promise.resolve in the
\* tests); that of c computes its answer and may reject or throw instead
MayReject(node) == node = "c"

\* The fields of the manager, and for each node object the number of forwarding
\* callbacks attached to its own 'nodeUpdated' channel.  What a call returns
\* and the events it emits are outputs, not state: they are the ret and events
\* fields of the value the method's operator yields.
VARIABLES nodes, nodeTypeIndex, sourceLinkIndex, targetLinkIndex,
          eventCallbacks, listeners

\* One getNodeStructure call in flight: the visited set it threads through the
\* recursion and the activations of handleNodeStructure it has made so far,
\* in the order they were entered.  No call in flight: both empty.
VARIABLES seen, calls

\* whether removeNode has run since the getNodeStructure call in flight began
VARIABLES mutated

\* One debounced EventNode (src/unnamed/part_001) and the clock its timer
\* runs on: emitTimeout is <<>> for undefined and <<due>> for a timer armed to
\* fire at time due.  burst lists the setProps calls made since the last
\* notification and notified holds the latest 'nodeUpdated' emitted, if any.
VARIABLES now, nodeProps, emitTimeout, burst, notified

\* One immediate EventNode (src/src/EventNode.ts), its properties in nodeProps:
\* asked lists the setNodeProps calls made on it and heard what its
\* 'nodeUpdated' listener read from getNodeProps each time it ran.
VARIABLES asked, heard

eventNodeVars == <<now, nodeProps, emitTimeout, burst, notified, asked, heard>>

graphVars == <<nodes, nodeTypeIndex, sourceLinkIndex, targetLinkIndex,
               eventCallbacks, listeners>>

structVars == <<seen, calls, mutated>>

vars == <<nodes, nodeTypeIndex, sourceLinkIndex, targetLinkIndex,
          eventCallbacks, listeners, seen, calls, mutated,
          now, nodeProps, emitTimeout, burst, notified, asked, heard>>

\* ------------------------------------------------------------- helpers
Has(s, x) == \E i \in 1..Len(s) : s[i] = x

Delete(s, x) == SelectSeq(s, LAMBDA y : y # x)

NoDup(s) == \A i, j \in 1..Len(s) : s[i] = s[j] => i = j

RECURSIVE SumLen(_, _)
SumLen(f, S) ==
  IF S = {} THEN 0
  ELSE LET x == CHOOSE y \in S : TRUE IN Len(f[x]) + SumLen(f, S \ {x})

\* the manager's fields as one value, so that a method is a function of it
G == [nodes |-> nodes, nodeTypeIndex |-> nodeTypeIndex,
      sourceLinkIndex |-> sourceLinkIndex, targetLinkIndex |-> targetLinkIndex,
      eventCallbacks |-> eventCallbacks, listeners |-> listeners,
      events |-> <<>>, at |-> <<>>]

\* what a listener that queries the manager from inside an event finds
Indices(g) ==
  [nodes |-> g.nodes, nodeTypeIndex |-> g.nodeTypeIndex,
   sourceLinkIndex |-> g.sourceLinkIndex, targetLinkIndex |-> g.targetLinkIndex]

Ev(type, x, y) == [type |-> type, a |-> x, b |-> y]

\* this.emit(type, x, y): the events of the current call, in order, and the
\* indices as they are while the listeners of each run
emit(g, type, x, y) ==
  [g EXCEPT !.events = Append(@, Ev(type, x, y)), !.at = Append(@, Indices(g))]

\* if (c) this.emit(type, x, y)
emitIf(c, g, type, x, y) == IF c THEN emit(g, type, x, y) ELSE g

\* a method's outcome: the fields it leaves and the value it returns
Ret(g, ret) == [g |-> g, ret |-> ret]

\* flag = call(...) || flag
OrRet(r, flag) == [r EXCEPT !.ret = @ \/ flag]

\* ------------------------------------------------------------- queries
getTargets(g, node) == g.targetLinkIndex[node]

getSources(g, node) == g.sourceLinkIndex[node]

getNodeById(g, id) == g.nodes[id]

\* the object the registry holds under n's id is n itself
Registered(g, n) == getNodeById(g, getNodeId(n)) = n

getAllNodes(g) == {g.nodes[id] : id \in Ids} \ {Undefined}

getNodesByType(g, t) == g.nodeTypeIndex[t]

getSourceEdgeCount(g) == SumLen(g.sourceLinkIndex, Objs)

getTargetEdgeCount(g) == SumLen(g.targetLinkIndex, Objs)

\* ------------------------------------------------------- link primitives
addSourceLink(g, source, parent) ==
  IF ~Has(g.sourceLinkIndex[parent], source)
  THEN Ret([g EXCEPT !.sourceLinkIndex[parent] = Append(@, source)], TRUE)
  ELSE Ret(g, FALSE)

\* the link looked up under the wrong key: sourceLinkIndex.get(source)
removeSourceLinkWrongKey(g, source, parent) ==
  IF Has(g.sourceLinkIndex[source], parent)
  THEN Ret([g EXCEPT !.sourceLinkIndex[source] = Delete(@, parent)], TRUE)
  ELSE Ret(g, FALSE)

removeSourceLink(g, source, parent) ==
  IF Has(g.sourceLinkIndex[parent], source)
  THEN Ret([g EXCEPT !.sourceLinkIndex[parent] = Delete(@, source)], TRUE)
  ELSE Ret(g, FALSE)

addTargetLink(g, parent, child) ==
  IF ~Has(g.targetLinkIndex[parent], child)
  THEN Ret([g EXCEPT !.targetLinkIndex[parent] = Append(@, child)], TRUE)
  ELSE Ret(g, FALSE)

\* the whole entry dropped: this.targetLinkIndex.delete(parent)
removeTargetLinkWholeEntry(g, parent, child) ==
  IF Has(g.targetLinkIndex[parent], child)
  THEN Ret([g EXCEPT !.targetLinkIndex[parent] = <<>>], TRUE)
  ELSE Ret(g, FALSE)

removeTargetLink(g, parent, child) ==
  IF Has(g.targetLinkIndex[parent], child)
  THEN Ret([g EXCEPT !.targetLinkIndex[parent] = Delete(@, child)], TRUE)
  ELSE Ret(g, FALSE)

\* --------------------------------------------------------------- edges
\* Each method is its statements in order; a statement that needs the outcome
\* of the one before takes it as the parameter r.

\* isRemoved = this.removeTargetLink(source, target) || isRemoved;
removeEdgeTarget(r, source, target) ==
  OrRet(removeTargetLink(r.g, source, target), r.ret)

\* if (isRemoved) { emit('edgeRemove'); if (emitGraphUpdate) emit('graphUpdate') }
removeEdgeEmit(r, source, target, emitGraphUpdate) ==
  IF r.ret
  THEN Ret(emitIf(emitGraphUpdate, emit(r.g, "edgeRemove", source, target),
                  "graphUpdate", Undefined, Undefined), TRUE)
  ELSE r

removeEdge(g, source, target, emitGraphUpdate) ==
  removeEdgeEmit(removeEdgeTarget(removeSourceLink(g, source, target), source, target),
                 source, target, emitGraphUpdate)

\* for (const source of this.getSources(node)) this.removeEdge(source, node);
\* each pass deletes the element the iterator stands on, so the loop visits
\* the set as it was when the loop began, in insertion order; a pass has
\* returned (done) before the next one begins
RECURSIVE RemoveSourcesLoop(_, _, _)
RemoveSourcesLoop(g, node, todo) ==
  IF todo = <<>> THEN g
  ELSE CHOOSE out \in {RemoveSourcesLoop(done, node, Tail(todo)) :
                         done \in {removeEdge(g, Head(todo), node, TRUE).g}} : TRUE

\* for (const target of this.getTargets(node)) this.removeEdge(node, target);
RECURSIVE RemoveTargetsLoop(_, _, _)
RemoveTargetsLoop(g, node, todo) ==
  IF todo = <<>> THEN g
  ELSE CHOOSE out \in {RemoveTargetsLoop(done, node, Tail(todo)) :
                         done \in {removeEdge(g, node, Head(todo), TRUE).g}} : TRUE

\* --------------------------------------------------------------- nodes
\* the two loops of handleRemoveNode; the second reads getTargets after the first
handleRemoveNodeTargets(g, node) == RemoveTargetsLoop(g, node, getTargets(g, node))

\* the second loop forgotten: only the incoming edges are removed
handleRemoveNodeEdgesSourcesOnly(g, node) ==
  RemoveSourcesLoop(g, node, getSources(g, node))

handleRemoveNodeEdges(g, node) ==
  handleRemoveNodeTargets(RemoveSourcesLoop(g, node, getSources(g, node)), node)

\* this.nodeTypeIndex.get(node.nodeType)?.delete(node)
handleRemoveNodeType(g, node) ==
  [g EXCEPT !.nodeTypeIndex[nodeType(node)] = @ \ {node}]

\* this.nodes.delete(id) succeeded: detach the stored callback, forget it
handleRemoveNodeDetach(g, node) ==
  [g EXCEPT !.nodes[getNodeId(node)] = Undefined,
            !.listeners[node] = IF node \in g.eventCallbacks /\ HasListenerApi(node)
                                THEN @ - 1 ELSE @,
            !.eventCallbacks = @ \ {node}]

\* if (this.nodes.delete(node.getNodeId())) { ... return true } return false
handleRemoveNodeDelete(g, node, emitNodeRemove, emitGraphUpdate) ==
  IF g.nodes[getNodeId(node)] # Undefined
  THEN Ret(emitIf(emitGraphUpdate,
                  emitIf(emitNodeRemove, handleRemoveNodeDetach(g, node),
                         "nodeRemove", node, Undefined),
                  "graphUpdate", Undefined, Undefined), TRUE)
  ELSE Ret(g, FALSE)

handleRemoveNode(g, node, emitNodeRemove, emitGraphUpdate) ==
  handleRemoveNodeDelete(handleRemoveNodeType(handleRemoveNodeEdges(g, node), node),
                         node, emitNodeRemove, emitGraphUpdate)

\* if (currentNode) { nodeTypeSet.delete(currentNode);
\*                    this.handleRemoveNode(currentNode, false, false) }
handleAddNodeReplace(g, node, currentNode) ==
  IF currentNode # Undefined
  THEN handleRemoveNode([g EXCEPT !.nodeTypeIndex[nodeType(node)] = @ \ {currentNode}],
                        currentNode, FALSE, FALSE).g
  ELSE g

\* nodeTypeSet.add(node); this.nodes.set(node.getNodeId(), node)
handleAddNodeSet(g, node) ==
  [g EXCEPT !.nodeTypeIndex[nodeType(node)] = @ \cup {node},
            !.nodes[getNodeId(node)] = node]

\* if ('addListener' in node) { this.eventCallbacks.set(node, eventCallback);
\*                              node.addListener('nodeUpdated', eventCallback) }
handleAddNodeListen(g, node) ==
  IF HasListenerApi(node)
  THEN [g EXCEPT !.eventCallbacks = @ \cup {node}, !.listeners[node] = @ + 1]
  ELSE g

\* the test reduced to if (!currentNode): an occupied id is never replaced
handleAddNodeIfAbsent(g, node, emitGraphUpdate) ==
  IF g.nodes[getNodeId(node)] = Undefined
  THEN Ret(handleAddNodeListen(
             emitIf(emitGraphUpdate,
                    emit(handleAddNodeSet(g, node), "nodeUpdate", node, Undefined),
                    "graphUpdate", Undefined, Undefined),
             node), TRUE)
  ELSE Ret(g, FALSE)

handleAddNode(g, node, emitGraphUpdate) ==
  IF g.nodes[getNodeId(node)] = Undefined \/ g.nodes[getNodeId(node)] # node
  THEN Ret(handleAddNodeListen(
             emitIf(emitGraphUpdate,
                    emit(handleAddNodeSet(
                           handleAddNodeReplace(g, node, g.nodes[getNodeId(node)]), node),
                         "nodeUpdate", node, Undefined),
                    "graphUpdate", Undefined, Undefined),
             node), TRUE)
  ELSE Ret(g, FALSE)

addNode(g, node, emitGraphUpdate) == handleAddNode(g, node, emitGraphUpdate)

\* const eventCallback = () => { this.emit('nodeUpdate', node); this.emit('graphUpdate') }
eventCallback(g, node) ==
  emit(emit(g, "nodeUpdate", node, Undefined), "graphUpdate", Undefined, Undefined)

\* node.emit('nodeUpdated'): every callback attached to the node runs once
RECURSIVE emitNodeUpdated(_, _, _)
emitNodeUpdated(g, node, attached) ==
  IF attached = 0 THEN g
  ELSE emitNodeUpdated(eventCallback(g, node), node, attached - 1)

removeNode(g, node, emitGraphUpdate) == handleRemoveNode(g, node, TRUE, emitGraphUpdate)

\* the target linked without being registered
addEdgeTargetNodeSkipped(r, target, emitGraphUpdate) == r

\* isAdded = this.addNode(target, emitGraphUpdate) || isAdded;
addEdgeTargetNode(r, target, emitGraphUpdate) ==
  OrRet(addNode(r.g, target, emitGraphUpdate), r.ret)

\* isAdded = this.addSourceLink(source, target) || isAdded;
addEdgeSourceLink(r, source, target) ==
  OrRet(addSourceLink(r.g, source, target), r.ret)

\* isAdded = this.addTargetLink(source, target) || isAdded;
addEdgeTargetLink(r, source, target) ==
  OrRet(addTargetLink(r.g, source, target), r.ret)

\* if (isAdded) { emit('edgeAdd'); if (emitGraphUpdate) emit('graphUpdate') }
addEdgeEmit(r, source, target, emitGraphUpdate) ==
  IF r.ret
  THEN Ret(emitIf(emitGraphUpdate, emit(r.g, "edgeAdd", source, target),
                  "graphUpdate", Undefined, Undefined), TRUE)
  ELSE r

addEdge(g, source, target, emitGraphUpdate) ==
  addEdgeEmit(
    addEdgeTargetLink(
      addEdgeSourceLink(
        addEdgeTargetNode(addNode(g, source, emitGraphUpdate), target, emitGraphUpdate),
        source, target),
      source, target),
    source, target, emitGraphUpdate)

\* ------------------------------------------------------ batch operations
\* only the first target of each source is linked
AddEdgesInnerFirstOnly(r, sourceNode, targets) ==
  IF targets = <<>> THEN r
  ELSE OrRet(addEdge(r.g, sourceNode, Head(targets), FALSE), r.ret)

\* isAdded = this.addEdge(sourceNode, targetNode, false) || isAdded;
RECURSIVE AddEdgesInner(_, _, _)
AddEdgesInner(r, sourceNode, targets) ==
  IF targets = <<>> THEN r
  ELSE CHOOSE out \in {AddEdgesInner(done, sourceNode, Tail(targets)) :
                         done \in {OrRet(addEdge(r.g, sourceNode, Head(targets), FALSE),
                                         r.ret)}} : TRUE

RECURSIVE AddEdgesOuter(_, _, _)
AddEdgesOuter(r, sources, targets) ==
  IF sources = <<>> THEN r
  ELSE CHOOSE out \in {AddEdgesOuter(done, Tail(sources), targets) :
                         done \in {AddEdgesInner(r, Head(sources), targets)}} : TRUE

\* the closing graphUpdate of a batch left out
batchEmitNothing(r, emitGraphUpdate) == r

\* if (emitGraphUpdate && isAdded) this.emit('graphUpdate'); return isAdded
batchEmit(r, emitGraphUpdate) ==
  Ret(emitIf(emitGraphUpdate /\ r.ret, r.g, "graphUpdate", Undefined, Undefined), r.ret)

addEdges(g, source, target, emitGraphUpdate) ==
  batchEmit(AddEdgesOuter(Ret(g, FALSE), source, target), emitGraphUpdate)

\* isRemoved = this.removeEdge(sourceNode, targetNode, false) || isRemoved;
RECURSIVE RemoveEdgesInner(_, _, _)
RemoveEdgesInner(r, sourceNode, targets) ==
  IF targets = <<>> THEN r
  ELSE CHOOSE out \in {RemoveEdgesInner(done, sourceNode, Tail(targets)) :
                         done \in {OrRet(removeEdge(r.g, sourceNode, Head(targets), FALSE),
                                         r.ret)}} : TRUE

RECURSIVE RemoveEdgesOuter(_, _, _)
RemoveEdgesOuter(r, sources, targets) ==
  IF sources = <<>> THEN r
  ELSE CHOOSE out \in {RemoveEdgesOuter(done, Tail(sources), targets) :
                         done \in {RemoveEdgesInner(r, Head(sources), targets)}} : TRUE

removeEdges(g, source, target, emitGraphUpdate) ==
  batchEmit(RemoveEdgesOuter(Ret(g, FALSE), source, target), emitGraphUpdate)

\* ----------------------------------------------------- structure builders
\* Array.from(...).filter((n) => !seen.has(n))
Unseen(s, seenNow) == SelectSeq(s, LAMBDA n : n \notin seenNow)

\* what a map over an array has collected so far, and the visited set
Mapped(items, seenNow) == [items |-> items, seen |-> seenNow]

\* array.map(...) takes the next element's result
Collect(st, r) == Mapped(Append(st.items, r.data), r.seen)

\* const data = {id}; if (targetArray.length > 0) data.targets = ...;
\* if (sourceArray.length > 0) data.sources = ...
EdgeData(node, targets, sources) ==
  IF targets # <<>> /\ sources # <<>>
  THEN [id |-> getNodeId(node), targets |-> targets, sources |-> sources]
  ELSE IF targets # <<>> THEN [id |-> getNodeId(node), targets |-> targets]
  ELSE IF sources # <<>> THEN [id |-> getNodeId(node), sources |-> sources]
  ELSE [id |-> getNodeId(node)]

\* return data
handleEdgeStructureReturn(node, targets, st) ==
  [data |-> EdgeData(node, targets, st.items), seen |-> st.seen]

RECURSIVE handleEdgeStructure(_, _, _)
RECURSIVE MapEdgeStructure(_, _, _)

\* array.map((n) => this.handleEdgeStructure(n, seen)): depth first, in array
\* order, every call adding to the one visited set
MapEdgeStructure(g, st, todo) ==
  IF todo = <<>> THEN st
  ELSE MapEdgeStructure(g, Collect(st, handleEdgeStructure(g, Head(todo), st.seen)),
                        Tail(todo))

\* the sources left out: only the outgoing edges are followed
handleEdgeStructureNoSources(g, node, st, sourceArray) ==
  handleEdgeStructureReturn(node, st.items, Mapped(<<>>, st.seen))

\* the sources are mapped after the targets, from the array filtered on entry
handleEdgeStructureSources(g, node, st, sourceArray) ==
  handleEdgeStructureReturn(node, st.items,
                            MapEdgeStructure(g, Mapped(<<>>, st.seen), sourceArray))

\* both arrays are filtered on entry, before any descent
handleEdgeStructureArrays(g, node, targetArray, sourceArray, seenNow) ==
  handleEdgeStructureSources(g, node,
                             MapEdgeStructure(g, Mapped(<<>>, seenNow), targetArray),
                             sourceArray)

\* seen.add(node), then the rest
handleEdgeStructure(g, node, seenIn) ==
  handleEdgeStructureArrays(g, node,
                            Unseen(getTargets(g, node), seenIn \cup {node}),
                            Unseen(getSources(g, node), seenIn \cup {node}),
                            seenIn \cup {node})

getEdgeStructure(g, node) == handleEdgeStructure(g, node, {}).data

\* handleNodeStructure up to its first await: seen.add(node), both arrays
\* filtered, type and id read, getNodeProps() called and awaited.  parent is
\* the activation that made this one (0: getNodeStructure itself) and rel the
\* array of the parent it was mapped from.
Activation(g, node, targetDepth, sourceDepth, parent, rel, seenNow) ==
  [node |-> node, targetDepth |-> targetDepth, sourceDepth |-> sourceDepth,
   targetArray |-> Unseen(getTargets(g, node), seenNow),
   sourceArray |-> Unseen(getSources(g, node), seenNow),
   parent |-> parent, rel |-> rel, pc |-> "props",
   data |-> [type |-> nodeType(node), id |-> getNodeId(node)],
   error |-> Undefined]

\* the traversal as a value: the activations and the visited set
Traversal(cs, seenNow) == [calls |-> cs, seen |-> seenNow]

\* seen.add(node) left until after the two arrays are filtered
EnterThenAdd(g, st, node, targetDepth, sourceDepth, parent, rel) ==
  Traversal(Append(st.calls,
                   Activation(g, node, targetDepth, sourceDepth, parent, rel, st.seen)),
            st.seen \cup {node})

Enter(g, st, node, targetDepth, sourceDepth, parent, rel) ==
  Traversal(Append(st.calls,
                   Activation(g, node, targetDepth, sourceDepth, parent, rel,
                              st.seen \cup {node})),
            st.seen \cup {node})

\* array.map((n) => this.handleNodeStructure(n, ..., seen)): each element's
\* activation runs to its first await before the next element's begins
RECURSIVE MapNodeStructure(_, _, _, _, _, _, _)
MapNodeStructure(g, st, todo, targetDepth, sourceDepth, parent, rel) ==
  IF todo = <<>> THEN st
  ELSE MapNodeStructure(g, Enter(g, st, Head(todo), targetDepth, sourceDepth, parent, rel),
                        Tail(todo), targetDepth, sourceDepth, parent, rel)

\* the activations mapped from one array of activation i, in array order
Kids(cs, i, rel) == SelectSeq(cs, LAMBDA c : c.parent = i /\ c.rel = rel)

KidsData(kids) == [k \in 1..Len(kids) |-> kids[k].data]

SetPc(st, i, pc) == [st EXCEPT !.calls[i].pc = pc]

\* props: await node.getNodeProps() yields a value
WithProps(st, i) ==
  [st EXCEPT !.calls[i].data =
     [type |-> @.type, id |-> @.id, props |-> <<"props", st.calls[i].node>>]]

\* data.targets = await Promise.all(...)
WithTargets(st, i) ==
  [st EXCEPT !.calls[i].data =
     [type |-> @.type, id |-> @.id, props |-> @.props,
      targets |-> KidsData(Kids(st.calls, i, "targets"))]]

\* data.sources = await Promise.all(...)
WithSources(st, i) ==
  [st EXCEPT !.calls[i].data =
     IF "targets" \in DOMAIN @
     THEN [type |-> @.type, id |-> @.id, props |-> @.props, targets |-> @.targets,
           sources |-> KidsData(Kids(st.calls, i, "sources"))]
     ELSE [type |-> @.type, id |-> @.id, props |-> @.props,
           sources |-> KidsData(Kids(st.calls, i, "sources"))]]

\* the two depths handed to the sources in each other's place
SourceStageSwapped(g, st, i) ==
  IF st.calls[i].sourceDepth >= 0 /\ st.calls[i].sourceArray # <<>>
  THEN MapNodeStructure(g, SetPc(st, i, "sources"), st.calls[i].sourceArray,
                        st.calls[i].sourceDepth - 1, st.calls[i].targetDepth,
                        i, "sources")
  ELSE SetPc(st, i, "resolved")

\* if (sourceDepth >= 0 && sourceArray.length > 0) data.sources = await ...;
\* return data
SourceStage(g, st, i) ==
  IF st.calls[i].sourceDepth >= 0 /\ st.calls[i].sourceArray # <<>>
  THEN MapNodeStructure(g, SetPc(st, i, "sources"), st.calls[i].sourceArray,
                        st.calls[i].targetDepth, st.calls[i].sourceDepth - 1,
                        i, "sources")
  ELSE SetPc(st, i, "resolved")

\* if (targetDepth >= 0 && targetArray.length > 0) data.targets = await ...
TargetStage(g, st, i) ==
  IF st.calls[i].targetDepth >= 0 /\ st.calls[i].targetArray # <<>>
  THEN MapNodeStructure(g, SetPc(st, i, "targets"), st.calls[i].targetArray,
                        st.calls[i].targetDepth - 1, st.calls[i].sourceDepth,
                        i, "targets")
  ELSE SourceStage(g, st, i)

\* a rejection swallowed: the activation resolves with what it has
RejectKeepsGoing(st, i, error) == [st EXCEPT !.calls[i].pc = "resolved"]

\* the awaited promise rejects: the activation's own promise rejects with it
Reject(st, i, error) == [st EXCEPT !.calls[i].pc = "rejected", !.calls[i].error = error]

\* ------------------------------------------------ the debounced notifier
\* the property values a node is given: the constructor's and two later ones
InitialNodeProps == "p0"
PropsValues == {"p1", "p2"}

\* the pending timer cleared and a new one armed on every call
setPropsTimerReset(timeout, t, emitDelay) == <<t + emitDelay>>

\* this.emitTimeout ??= setTimeout(..., emitDelay), called at time t
setPropsTimer(timeout, t, emitDelay) ==
  IF timeout = <<>> THEN <<t + emitDelay>> ELSE timeout

\* one setProps call as the history keeps it
SetPropsCall(t, props, emitDelay) == [at |-> t, props |-> props, emitDelay |-> emitDelay]

\* one 'nodeUpdated' as the history keeps it: when, what getNodeProps returned
\* then, and the first and the last call of the burst it closes
Notification(t, props, calls_) ==
  [at |-> t, props |-> props, first |-> calls_[1], last |-> calls_[Len(calls_)],
   size |-> Len(calls_)]

\* ------------------------------------------------ the immediate notifier
\* the node as a value: its field and what its listener has read so far
EventNode == [nodeProps |-> nodeProps, heard |-> heard]

\* this.emit('nodeUpdated'): the listener runs inside the call and reads
\* getNodeProps()
emitNodeUpdatedNow(n) == [n EXCEPT !.heard = Append(@, n.nodeProps)]

\* the flag ignored: every call notifies
setNodePropsAlwaysEmits(n, props, emitFlag) ==
  emitNodeUpdatedNow([n EXCEPT !.nodeProps = props])

\* this.nodeProps = props; if (emitNodeUpdated) this.emit('nodeUpdated');
\* emitFlag is the parameter emitNodeUpdated
setNodeProps(n, props, emitFlag) ==
  IF emitFlag
  THEN emitNodeUpdatedNow([n EXCEPT !.nodeProps = props])
  ELSE [n EXCEPT !.nodeProps = props]

\* one setNodeProps call as the caller made it
SetNodePropsCall(props, emitFlag) ==
  [props |-> props, emitNodeUpdated |-> emitFlag]

\* ------------------------------------------------------- the state machine
\* new EventNode(type, id, initialNodeProps), the clock at 0
EventNodeConstructed ==
  /\ now = 0
  /\ nodeProps = InitialNodeProps
  /\ emitTimeout = <<>>
  /\ burst = <<>>
  /\ notified = <<>>
  /\ asked = <<>>
  /\ heard = <<>>

Init ==
  /\ nodes = [id \in Ids |-> Undefined]
  /\ nodeTypeIndex = [t \in Types |-> {}]
  /\ sourceLinkIndex = [n \in Objs |-> <<>>]
  /\ targetLinkIndex = [n \in Objs |-> <<>>]
  /\ eventCallbacks = {}
  /\ listeners = [n \in Objs |-> 0]
  /\ seen = {}
  /\ calls = <<>>
  /\ mutated = FALSE
  /\ EventNodeConstructed

\* the call returns: the fields are what the method left
Return(r) ==
  /\ nodes' = r.g.nodes
  /\ nodeTypeIndex' = r.g.nodeTypeIndex
  /\ sourceLinkIndex' = r.g.sourceLinkIndex
  /\ targetLinkIndex' = r.g.targetLinkIndex
  /\ eventCallbacks' = r.g.eventCallbacks
  /\ listeners' = r.g.listeners
  /\ UNCHANGED eventNodeVars

\* the inputs stay within the bounds of the model
WithinBounds(g) ==
  /\ getTargetEdgeCount(g) <= MaxEdges
  /\ \A n \in Objs : g.listeners[n] <= MaxListeners

\* the collections handed to a batch call: arrays of distinct node objects
Batches == {s \in UNION {[1..k -> Objs] : k \in 1..MaxBatch} : NoDup(s)}

AddNode ==
  \E node \in Objs, e \in BOOLEAN :
    /\ \E r \in {addNode(G, node, e)} : WithinBounds(r.g) /\ Return(r)
    /\ UNCHANGED structVars

RemoveNode ==
  \E node \in Objs, e \in BOOLEAN :
    /\ \E r \in {removeNode(G, node, e)} : Return(r)
    /\ UNCHANGED structVars

AddEdge ==
  \E source \in Objs, target \in Objs, e \in BOOLEAN :
    /\ \E r \in {addEdge(G, source, target, e)} : WithinBounds(r.g) /\ Return(r)
    /\ UNCHANGED structVars

RemoveEdge ==
  \E source \in Objs, target \in Objs, e \in BOOLEAN :
    /\ \E r \in {removeEdge(G, source, target, e)} : Return(r)
    /\ UNCHANGED structVars

AddEdges ==
  \E source \in Batches, target \in Batches, e \in BOOLEAN :
    /\ Len(source) * Len(target) <= MaxBatch
    /\ \E r \in {addEdges(G, source, target, e)} : WithinBounds(r.g) /\ Return(r)
    /\ UNCHANGED structVars

RemoveEdges ==
  \E source \in Batches, target \in Batches, e \in BOOLEAN :
    /\ Len(source) * Len(target) <= MaxBatch
    /\ \E r \in {removeEdges(G, source, target, e)} : Return(r)
    /\ UNCHANGED structVars

\* a node with the listener api announces a change of its properties
NodeUpdated ==
  \E node \in Objs :
    /\ HasListenerApi(node)
    /\ Return(Ret(emitNodeUpdated(G, node, listeners[node]), TRUE))
    /\ UNCHANGED structVars

Next ==
  \/ AddNode
  \/ RemoveNode
  \/ AddEdge
  \/ RemoveEdge
  \/ AddEdges
  \/ RemoveEdges
  \/ NodeUpdated

Spec == Init /\ [][Next]_vars

\* ------------------------------------------- the structure builders at work
\* A manager over three nodes of different ids: edges are added one at a time,
\* and between mutations getEdgeStructure is called or one getNodeStructure
\* call runs to its end, its activations resumed in any order the awaited
\* getNodeProps promises may settle in.
InitStructure ==
  /\ nodes = [id \in StructIds |-> Undefined]
  /\ nodeTypeIndex = [t \in Types |-> {}]
  /\ sourceLinkIndex = [n \in StructObjs |-> <<>>]
  /\ targetLinkIndex = [n \in StructObjs |-> <<>>]
  /\ eventCallbacks = {}
  /\ listeners = [n \in StructObjs |-> 0]
  /\ seen = {}
  /\ calls = <<>>
  /\ mutated = FALSE
  /\ EventNodeConstructed

Running == Traversal(calls, seen)

\* the traversal goes on: the manager's fields are read, not written
Resume(st) ==
  /\ calls' = st.calls
  /\ seen' = st.seen
  /\ UNCHANGED mutated
  /\ UNCHANGED graphVars
  /\ UNCHANGED eventNodeVars

StructAddEdge ==
  \E source \in StructObjs, target \in StructObjs :
    /\ calls = <<>>
    /\ SumLen(addEdge(G, source, target, TRUE).g.targetLinkIndex, StructObjs) <= MaxStructEdges
    /\ Return(addEdge(G, source, target, TRUE))
    /\ UNCHANGED structVars

GetEdgeStructure ==
  \E node \in StructObjs :
    /\ calls = <<>>
    /\ getEdgeStructure(G, node).id = getNodeId(node)
    /\ UNCHANGED vars

GetNodeStructure ==
  \E node \in StructObjs, targetDepth \in Depths, sourceDepth \in Depths :
    /\ calls = <<>>
    /\ Resume(Enter(G, Traversal(<<>>, {}), node, targetDepth, sourceDepth, 0, "root"))

PropsResolved ==
  \E i \in 1..Len(calls) :
    /\ calls[i].pc = "props"
    /\ Resume(TargetStage(G, WithProps(Running, i), i))

PropsRejected ==
  \E i \in 1..Len(calls) :
    /\ calls[i].pc = "props"
    /\ MayReject(calls[i].node)
    /\ Resume(Reject(Running, i, calls[i].node))

TargetsResolved ==
  \E i \in 1..Len(calls) :
    /\ calls[i].pc = "targets"
    /\ \A k \in 1..Len(calls) :
         calls[k].parent = i /\ calls[k].rel = "targets" => calls[k].pc = "resolved"
    /\ Resume(SourceStage(G, WithTargets(Running, i), i))

SourcesResolved ==
  \E i \in 1..Len(calls) :
    /\ calls[i].pc = "sources"
    /\ \A k \in 1..Len(calls) :
         calls[k].parent = i /\ calls[k].rel = "sources" => calls[k].pc = "resolved"
    /\ Resume(SetPc(WithSources(Running, i), i, "resolved"))

\* Promise.all rejects as soon as one of its promises does
ChildRejected ==
  \E i \in 1..Len(calls), k \in 1..Len(calls) :
    /\ calls[i].pc \in {"targets", "sources"}
    /\ calls[k].parent = i /\ calls[k].rel = calls[i].pc /\ calls[k].pc = "rejected"
    /\ Resume(Reject(Running, i, calls[k].error))

\* the promise getNodeStructure returned has settled: the caller has its answer
Settled ==
  /\ calls # <<>>
  /\ calls[1].pc \in {"resolved", "rejected"}
  /\ Resume(Traversal(<<>>, {}))

NextStructure ==
  \/ StructAddEdge
  \/ GetEdgeStructure
  \/ GetNodeStructure
  \/ PropsResolved
  \/ PropsRejected
  \/ TargetsResolved
  \/ SourcesResolved
  \/ ChildRejected
  \/ Settled

SpecStructure == InitStructure /\ [][NextStructure]_vars

\* a continuation whose awaited promise has settled is run by the microtask
\* queue, and every getNodeProps promise settles, one way or the other
Continue ==
  \/ PropsResolved
  \/ PropsRejected
  \/ TargetsResolved
  \/ SourcesResolved
  \/ ChildRejected
  \/ Settled

SpecStructureFair == SpecStructure /\ WF_vars(Continue)

\* --------------------------------------------- replacement by a twin object
\* A manager over a1 and the two objects b and b2, which share an id and a
\* type: nodes and edges are added and removed one call at a time.
InitObserver ==
  /\ nodes = [id \in Ids |-> Undefined]
  /\ nodeTypeIndex = [t \in Types |-> {}]
  /\ sourceLinkIndex = [n \in ObserverObjs |-> <<>>]
  /\ targetLinkIndex = [n \in ObserverObjs |-> <<>>]
  /\ eventCallbacks = {}
  /\ listeners = [n \in ObserverObjs |-> 0]
  /\ seen = {}
  /\ calls = <<>>
  /\ mutated = FALSE
  /\ EventNodeConstructed

ObserverWithinBounds(g) ==
  /\ SumLen(g.targetLinkIndex, ObserverObjs) <= MaxEdges
  /\ \A n \in ObserverObjs : g.listeners[n] <= MaxListeners

ObserverAddNode ==
  \E node \in ObserverObjs, e \in BOOLEAN :
    /\ \E r \in {addNode(G, node, e)} : ObserverWithinBounds(r.g) /\ Return(r)
    /\ UNCHANGED structVars

ObserverRemoveNode ==
  \E node \in ObserverObjs, e \in BOOLEAN :
    /\ \E r \in {removeNode(G, node, e)} : Return(r)
    /\ UNCHANGED structVars

ObserverAddEdge ==
  \E source \in ObserverObjs, target \in ObserverObjs, e \in BOOLEAN :
    /\ \E r \in {addEdge(G, source, target, e)} : ObserverWithinBounds(r.g) /\ Return(r)
    /\ UNCHANGED structVars

ObserverRemoveEdge ==
  \E source \in ObserverObjs, target \in ObserverObjs, e \in BOOLEAN :
    /\ \E r \in {removeEdge(G, source, target, e)} : Return(r)
    /\ UNCHANGED structVars

NextObserver ==
  \/ ObserverAddNode
  \/ ObserverRemoveNode
  \/ ObserverAddEdge
  \/ ObserverRemoveEdge

SpecObserver == InitObserver /\ [][NextObserver]_vars

\* ------------------------------------- snapshots while the graph is mutated
\* A manager over four nodes whose edges are drawn from the diamond.  A
\* getNodeStructure call is made on a registered node; while its activations
\* await their properties the caller may remove a node, since removeNode is
\* synchronous and the traversal has yielded.
InitSnapshot ==
  /\ nodes = [id \in WideIds |-> Undefined]
  /\ nodeTypeIndex = [t \in Types |-> {}]
  /\ sourceLinkIndex = [n \in WideObjs |-> <<>>]
  /\ targetLinkIndex = [n \in WideObjs |-> <<>>]
  /\ eventCallbacks = {}
  /\ listeners = [n \in WideObjs |-> 0]
  /\ seen = {}
  /\ calls = <<>>
  /\ mutated = FALSE
  /\ EventNodeConstructed

SnapshotAddEdge ==
  \E edge \in DiamondEdges :
    /\ calls = <<>>
    /\ Return(addEdge(G, edge[1], edge[2], TRUE))
    /\ UNCHANGED structVars

SnapshotGetNodeStructure ==
  \E node \in WideObjs, sourceDepth \in {-1, 0} :
    /\ calls = <<>>
    /\ Registered(G, node)
    /\ \E st \in {Enter(G, Traversal(<<>>, {}), node, MaxSnapshotDepth, sourceDepth,
                         0, "root")} :
         calls' = st.calls /\ seen' = st.seen
    /\ mutated' = FALSE
    /\ UNCHANGED graphVars
    /\ UNCHANGED eventNodeVars

\* removeNode(node) between two continuations of the traversal
SnapshotRemoveNode ==
  \E node \in WideObjs :
    /\ calls # <<>>
    /\ ~mutated
    /\ Registered(G, node)
    /\ Return(removeNode(G, node, TRUE))
    /\ mutated' = TRUE
    /\ UNCHANGED <<seen, calls>>

NextSnapshot ==
  \/ SnapshotAddEdge
  \/ SnapshotGetNodeStructure
  \/ SnapshotRemoveNode
  \/ PropsResolved
  \/ TargetsResolved
  \/ SourcesResolved
  \/ Settled

SpecSnapshot == InitSnapshot /\ [][NextSnapshot]_vars

\* --------------------------------------------- the debounced notifier at work
\* One EventNode on its own: setProps is called at any time with any delay,
\* the clock ticks, and a timer fires when the clock reaches its due time (the
\* event loop is idle, so no timer fires late).
InitEventNode ==
  /\ nodes = [id \in Ids |-> Undefined]
  /\ nodeTypeIndex = [t \in Types |-> {}]
  /\ sourceLinkIndex = [n \in Objs |-> <<>>]
  /\ targetLinkIndex = [n \in Objs |-> <<>>]
  /\ eventCallbacks = {}
  /\ listeners = [n \in Objs |-> 0]
  /\ seen = {}
  /\ calls = <<>>
  /\ mutated = FALSE
  /\ EventNodeConstructed

\* this.nodeProps = props; this.emitTimeout ??= setTimeout(..., emitDelay)
SetProps ==
  \E props \in PropsValues, emitDelay \in 1..MaxDelay :
    /\ Len(burst) < MaxBurst
    /\ now + emitDelay <= MaxTime
    /\ nodeProps' = props
    /\ emitTimeout' = setPropsTimer(emitTimeout, now, emitDelay)
    /\ burst' = Append(burst, SetPropsCall(now, props, emitDelay))
    /\ UNCHANGED <<now, notified, asked, heard>>
    /\ UNCHANGED <<graphVars, structVars>>

\* () => { this.emit('nodeUpdated'); this.emitTimeout = undefined }
Timeout ==
  /\ emitTimeout # <<>>
  /\ now = emitTimeout[1]
  /\ notified' = <<Notification(now, nodeProps, burst)>>
  /\ emitTimeout' = <<>>
  /\ burst' = <<>>
  /\ UNCHANGED <<now, nodeProps, asked, heard>>
  /\ UNCHANGED <<graphVars, structVars>>

\* time passes, but not past a timer that is due
Tick ==
  /\ now < MaxTime
  /\ emitTimeout # <<>> => now < emitTimeout[1]
  /\ now' = now + 1
  /\ UNCHANGED <<nodeProps, emitTimeout, burst, notified, asked, heard>>
  /\ UNCHANGED <<graphVars, structVars>>

NextEventNode ==
  \/ SetProps
  \/ Timeout
  \/ Tick

SpecEventNode == InitEventNode /\ [][NextEventNode]_vars

\* ------------------------------------ the debounced notifier with a listener
\* The timer fires and a 'nodeUpdated' listener calls setProps from inside the
\* emit: this.nodeProps = props, and this.emitTimeout ??= ... finds the handle
\* of the timer that is firing still set, so no timer is armed; then the
\* callback goes on with this.emitTimeout = undefined.
TimeoutListener ==
  \E props \in PropsValues, emitDelay \in 1..MaxDelay :
    /\ emitTimeout # <<>>
    /\ now = emitTimeout[1]
    /\ notified' = <<Notification(now, nodeProps, burst)>>
    /\ nodeProps' = props
    /\ setPropsTimer(emitTimeout, now, emitDelay) = emitTimeout
    /\ emitTimeout' = <<>>
    /\ burst' = <<SetPropsCall(now, props, emitDelay)>>
    /\ UNCHANGED <<now, asked, heard>>
    /\ UNCHANGED <<graphVars, structVars>>

NextEventNodeListener ==
  \/ SetProps
  \/ Timeout
  \/ TimeoutListener
  \/ Tick

SpecEventNodeListener == InitEventNode /\ [][NextEventNodeListener]_vars

\* an armed timer fires once the clock has reached its due time, and the
\* clock goes on
SpecEventNodeListenerFair ==
  /\ SpecEventNodeListener
  /\ WF_vars(Timeout \/ TimeoutListener)
  /\ WF_vars(Tick)

\* --------------------------------------------- the immediate notifier at work
\* One immediate EventNode with one 'nodeUpdated' listener that reads
\* getNodeProps(): setNodeProps is called with any properties and either flag.
SetNodeProps ==
  \E props \in PropsValues, emitFlag \in BOOLEAN :
    /\ Len(asked) < MaxCalls
    /\ \E n \in {setNodeProps(EventNode, props, emitFlag)} :
         nodeProps' = n.nodeProps /\ heard' = n.heard
    /\ asked' = Append(asked, SetNodePropsCall(props, emitFlag))
    /\ UNCHANGED <<now, emitTimeout, burst, notified>>
    /\ UNCHANGED <<graphVars, structVars>>

\* getNodeProps(): return this.nodeProps
GetNodeProps ==
  /\ nodeProps \in PropsValues \cup {InitialNodeProps}
  /\ UNCHANGED vars

NextImmediate ==
  \/ SetNodeProps
  \/ GetNodeProps

SpecImmediate == InitEventNode /\ [][NextImmediate]_vars

\* ------------------------------------------------------------ properties

\* the distinct edges of the graph, read from the target index
Edges(g) == {p \in Objs \X Objs : Has(getTargets(g, p[1]), p[2])}

\* the edges with n at either end
Touching(g, n) == {p \in Edges(g) : p[1] = n \/ p[2] = n}

\* n occurs nowhere in either adjacency index
NoEdges(g, n) ==
  /\ getTargets(g, n) = <<>>
  /\ getSources(g, n) = <<>>
  /\ \A m \in Objs : ~Has(getTargets(g, m), n) /\ ~Has(getSources(g, m), n)

Count(evs, ev) == Cardinality({i \in 1..Len(evs) : evs[i] = ev})

CountType(evs, type) == Cardinality({i \in 1..Len(evs) : evs[i].type = type})

\* C1: the two adjacency indices are exact inverses (B is a target of A iff A
\* is a source of B), so getSourceEdgeCount() = getTargetEdgeCount() = the
\* number of distinct edges in the graph.
InverseIndices ==
  /\ \A A, B \in Objs : Has(getTargets(G, A), B) <=> Has(getSources(G, B), A)
  /\ getSourceEdgeCount(G) = getTargetEdgeCount(G)
  /\ getTargetEdgeCount(G) = Cardinality(Edges(G))

\* several edges, one of them between two different nodes, held in both indices
InverseIndicesWitness ==
  /\ getTargetEdgeCount(G) >= 2
  /\ \E A, B \in Objs : A # B /\ Has(getTargets(G, A), B) /\ Has(getSources(G, B), A)

\* C2: the Type Index mirrors the Registry: getNodesByType(t) is the set of
\* the nodes of getAllNodes() whose nodeType is t, for every type t.
TypeIndexMirrorsRegistry ==
  \A t \in Types : getNodesByType(G, t) = {n \in getAllNodes(G) : nodeType(n) = t}

\* C3: every edge has both endpoints in the Registry: if B is a target of A
\* (or A a source of B) then getNodeById(A.id) is A and getNodeById(B.id) is B.
EdgeEndpointsRegistered ==
  \A A, B \in Objs :
    Has(getTargets(G, A), B) \/ Has(getSources(G, B), A)
      => Registered(G, A) /\ Registered(G, B)

\* C4: addNode(n) returns true exactly when n is not the object registered
\* under its id; a second addNode(n) right after returns false, changes no
\* index and emits nothing.
AddNodeOutcome(r, g, n) ==
  /\ r.ret <=> ~Registered(g, n)
  /\ \A e \in BOOLEAN : addNode(r.g, n, e) = Ret(r.g, FALSE)

AddNodeReturn ==
  \A n \in Objs, e \in BOOLEAN : AddNodeOutcome(addNode(G, n, e), G, n)

\* an id held by one object while addNode is given another, and the same object
AddNodeReturnWitness ==
  \E n1, n2 \in Objs :
    /\ n1 # n2 /\ getNodeId(n1) = getNodeId(n2)
    /\ Registered(G, n1) /\ getTargets(G, n1) # <<>>
    /\ addNode(G, n2, TRUE).ret
    /\ ~addNode(G, n1, TRUE).ret

\* C5: removeNode(n) returns true iff the node n was in the Registry before
\* the call; after a call that returned true the same call returns false.
RemoveNodeOutcome(r, g, n) ==
  /\ r.ret <=> Registered(g, n)
  /\ r.ret => \A e \in BOOLEAN : ~removeNode(r.g, n, e).ret

RemoveNodeReturn ==
  \A n \in Objs, e \in BOOLEAN : RemoveNodeOutcome(removeNode(G, n, e), G, n)

\* C6: addNode(n2) while a different object n1 holds the id returns true, and
\* then getNodeById(id) is n2, n1 is in no type bucket, n1 has no edge in
\* either index, n1's forwarding listener is detached, n2 has no edges, and no
\* nodeRemove was emitted for n1.
ReplacementOutcome(r, n1, n2) ==
  /\ r.ret
  /\ getNodeById(r.g, getNodeId(n2)) = n2
  /\ \A t \in Types : n1 \notin getNodesByType(r.g, t)
  /\ NoEdges(r.g, n1)
  /\ n1 \notin r.g.eventCallbacks /\ r.g.listeners[n1] = 0
  /\ NoEdges(r.g, n2)
  /\ Count(r.g.events, Ev("nodeRemove", n1, Undefined)) = 0

Replacement ==
  \A n1, n2 \in Objs, e \in BOOLEAN :
    n1 # n2 /\ getNodeId(n1) = getNodeId(n2) /\ Registered(G, n1)
      => ReplacementOutcome(addNode(G, n2, e), n1, n2)

\* C7 as stated: removeNode(n) on a registered node with k outgoing and m
\* incoming edges removes them all and emits exactly k + m edgeRemove events,
\* all before the single nodeRemove(n); afterwards n is nobody's target or source.
CascadeOrder(evs, n) ==
  /\ Count(evs, Ev("nodeRemove", n, Undefined)) = 1
  /\ CountType(evs, "nodeRemove") = 1
  /\ \A i, j \in 1..Len(evs) :
       evs[i].type = "edgeRemove" /\ evs[j].type = "nodeRemove" => i < j

CascadeOutcomeKPlusM(r, g, n) ==
  /\ r.ret
  /\ NoEdges(r.g, n)
  /\ CountType(r.g.events, "edgeRemove") = Len(getTargets(g, n)) + Len(getSources(g, n))
  /\ CascadeOrder(r.g.events, n)

CascadingRemovalKPlusM ==
  \A n \in Objs, e \in BOOLEAN :
    Registered(G, n) => CascadeOutcomeKPlusM(removeNode(G, n, e), G, n)

\* C7 (amended): removeNode(n) on a registered node removes every edge that
\* touches n from both indices and emits exactly one edgeRemove for each
\* distinct such edge (a self-loop n->n is one edge, so the number is k + m
\* less one when n has a self-loop), all before the single nodeRemove(n);
\* afterwards n is nobody's target or source.
CascadeOutcome(r, g, n) ==
  /\ r.ret
  /\ NoEdges(r.g, n)
  /\ \A p \in Touching(g, n) : Count(r.g.events, Ev("edgeRemove", p[1], p[2])) = 1
  /\ CountType(r.g.events, "edgeRemove") = Cardinality(Touching(g, n))
  /\ Cardinality(Touching(g, n)) =
       Len(getTargets(g, n)) + Len(getSources(g, n))
         - (IF Has(getTargets(g, n), n) THEN 1 ELSE 0)
  /\ CascadeOrder(r.g.events, n)

CascadingRemoval ==
  \A n \in Objs, e \in BOOLEAN :
    Registered(G, n) => CascadeOutcome(removeNode(G, n, e), G, n)

\* a registered node with a self-loop and another outgoing edge is removed
CascadingRemovalWitness ==
  \E n \in Objs :
    /\ Registered(G, n)
    /\ Has(getTargets(G, n), n) /\ Len(getTargets(G, n)) >= 2
    /\ removeNode(G, n, TRUE).ret

\* C8: addEdge(s, t) returns true iff s was newly registered, t was newly
\* registered or the link s->t was newly created; after it s and t are both
\* registered and the link exists, and the same call repeated returns false.
AddEdgeOutcome(r, g, s, t) ==
  /\ r.ret <=> (~Registered(g, s) \/ ~Registered(g, t) \/ ~Has(getTargets(g, s), t))
  /\ Registered(r.g, s) /\ Registered(r.g, t)
  /\ Has(getTargets(r.g, s), t) /\ Has(getSources(r.g, t), s)
  /\ \A e \in BOOLEAN : ~addEdge(r.g, s, t, e).ret

AddEdgeReturn ==
  \A s, t \in Objs, e \in BOOLEAN : AddEdgeOutcome(addEdge(G, s, t, e), G, s, t)

\* C9: addEdge(s, t) emits edgeAdd(s, t) exactly once when this call created
\* the link, and no edgeAdd when the link already existed before the call
\* (and the call did not remove it on the way), even if an endpoint was
\* (re)registered by the call.
AddEdgeEvents(r, g, s, t) ==
  /\ CountType(r.g.events, "edgeAdd") = Count(r.g.events, Ev("edgeAdd", s, t))
  /\ Count(r.g.events, Ev("edgeAdd", s, t)) =
       IF Has(getTargets(g, s), t) /\ Count(r.g.events, Ev("edgeRemove", s, t)) = 0
       THEN 0 ELSE 1

AddEdgeEmitsOnlyForNewLink ==
  \A s, t \in Objs, e \in BOOLEAN : AddEdgeEvents(addEdge(G, s, t, e), G, s, t)

\* C10: removeEdge(s, t) returns true iff the link s->t existed; on true t
\* leaves getTargets(s), s leaves getSources(t) and edgeRemove(s, t) is
\* emitted; in every case the Registry, the Type Index, every other edge and
\* the listener attachments are unchanged.
RemoveEdgeOutcome(r, g, s, t) ==
  /\ r.ret <=> Has(getTargets(g, s), t)
  /\ r.ret => /\ ~Has(getTargets(r.g, s), t)
              /\ ~Has(getSources(r.g, t), s)
              /\ Count(r.g.events, Ev("edgeRemove", s, t)) = 1
  /\ r.g.nodes = g.nodes
  /\ r.g.nodeTypeIndex = g.nodeTypeIndex
  /\ r.g.eventCallbacks = g.eventCallbacks
  /\ r.g.listeners = g.listeners
  /\ \A A, B \in Objs :
       <<A, B>> # <<s, t>> =>
         /\ Has(getTargets(r.g, A), B) <=> Has(getTargets(g, A), B)
         /\ Has(getSources(r.g, B), A) <=> Has(getSources(g, B), A)

RemoveEdgeFrame ==
  \A s, t \in Objs, e \in BOOLEAN : RemoveEdgeOutcome(removeEdge(G, s, t, e), G, s, t)

\* one of several edges is removed, between registered nodes
RemoveEdgeFrameWitness ==
  \E s, t \in Objs :
    /\ Registered(G, s) /\ Registered(G, t)
    /\ Has(getTargets(G, s), t) /\ getTargetEdgeCount(G) >= 2
    /\ removeEdge(G, s, t, TRUE).ret

\* the elements of an array
Elems(s) == {s[i] : i \in 1..Len(s)}

\* C11: one addEdges(S, T) or removeEdges(S, T) call with the default flag
\* emits graphUpdate at most once, as the last event of the call, exactly when
\* the call returns true; the per-pair operations emit no graphUpdate.
BatchGraphUpdate(r) ==
  /\ CountType(r.g.events, "graphUpdate") = (IF r.ret THEN 1 ELSE 0)
  /\ r.ret => r.g.events[Len(r.g.events)].type = "graphUpdate"

BatchGraphUpdateOnce ==
  \A S, T \in Batches :
    Len(S) * Len(T) <= MaxBatch =>
      /\ BatchGraphUpdate(addEdges(G, S, T, TRUE))
      /\ BatchGraphUpdate(removeEdges(G, S, T, TRUE))

\* C12 as stated: after addEdges(S, T) every link s->t with s in S and t in T
\* exists in both adjacency indices; after removeEdges(S, T) none of them does.
AllLinked(g, S, T) ==
  \A s \in Elems(S), t \in Elems(T) :
    Has(getTargets(g, s), t) /\ Has(getSources(g, t), s)

NoneLinked(g, S, T) ==
  \A s \in Elems(S), t \in Elems(T) :
    ~Has(getTargets(g, s), t) /\ ~Has(getSources(g, t), s)

CartesianProduct ==
  \A S, T \in Batches :
    Len(S) * Len(T) <= MaxBatch =>
      /\ AllLinked(addEdges(G, S, T, TRUE).g, S, T)
      /\ NoneLinked(removeEdges(G, S, T, TRUE).g, S, T)

\* no two different objects named in the batch answer the same id
DistinctIds(S, T) ==
  \A x, y \in Elems(S) \cup Elems(T) : getNodeId(x) = getNodeId(y) => x = y

\* C12 (amended): after addEdges(S, T), where no two different objects among
\* S and T share an id, every link s->t exists in both adjacency indices (a
\* batch naming two objects of one id replaces the first by the second, which
\* drops the links of the first); after removeEdges(S, T) no link s->t exists.
CartesianProductDistinctIds ==
  \A S, T \in Batches :
    Len(S) * Len(T) <= MaxBatch =>
      /\ DistinctIds(S, T) => AllLinked(addEdges(G, S, T, TRUE).g, S, T)
      /\ NoneLinked(removeEdges(G, S, T, TRUE).g, S, T)

\* a batch of two pairs over distinct ids, one link new and one already there,
\* in a graph where another object holds the id of one endpoint
CartesianProductWitness ==
  \E S, T \in Batches :
    /\ Len(S) * Len(T) = 2 /\ DistinctIds(S, T)
    /\ \E s \in Elems(S), t \in Elems(T) : Has(getTargets(G, s), t)
    /\ \E s \in Elems(S), t \in Elems(T) : ~Has(getTargets(G, s), t)
    /\ \E x \in Elems(S) \cup Elems(T), y \in Objs :
         x # y /\ getNodeId(x) = getNodeId(y) /\ Registered(G, y)
    /\ addEdges(G, S, T, TRUE).ret

\* C13: with the default flag, every nodeUpdate, nodeRemove, edgeAdd or
\* edgeRemove a public mutation operation emits is followed, before the
\* operation returns, by a graphUpdate.
FollowedByGraphUpdate(evs) ==
  \A i \in 1..Len(evs) :
    evs[i].type \in {"nodeUpdate", "nodeRemove", "edgeAdd", "edgeRemove"}
      => \E j \in (i + 1)..Len(evs) : evs[j].type = "graphUpdate"

GraphUpdateFollows ==
  /\ \A n \in Objs :
       /\ FollowedByGraphUpdate(addNode(G, n, TRUE).g.events)
       /\ FollowedByGraphUpdate(removeNode(G, n, TRUE).g.events)
  /\ \A s, t \in Objs :
       /\ FollowedByGraphUpdate(addEdge(G, s, t, TRUE).g.events)
       /\ FollowedByGraphUpdate(removeEdge(G, s, t, TRUE).g.events)
  /\ \A S, T \in Batches :
       Len(S) * Len(T) <= MaxBatch =>
         /\ FollowedByGraphUpdate(addEdges(G, S, T, TRUE).g.events)
         /\ FollowedByGraphUpdate(removeEdges(G, S, T, TRUE).g.events)

\* a batch that replaces a node with edges, links a pair and emits edgeRemove,
\* nodeUpdate and edgeAdd before its closing graphUpdate
GraphUpdateFollowsWitness ==
  \E S, T \in Batches :
    /\ Len(S) * Len(T) <= MaxBatch /\ DistinctIds(S, T)
    /\ getTargetEdgeCount(G) >= 2
    /\ CountType(addEdges(G, S, T, TRUE).g.events, "edgeRemove") >= 1
    /\ CountType(addEdges(G, S, T, TRUE).g.events, "nodeUpdate") >= 1
    /\ CountType(addEdges(G, S, T, TRUE).g.events, "edgeAdd") >= 1

\* C14: the manager has exactly one forwarding listener on a node with the
\* listener api while the node is registered and none otherwise: a
\* 'nodeUpdated' of a registered node makes the manager emit one nodeUpdate(n)
\* then one graphUpdate, and that of an unregistered node makes it emit nothing.
ForwardedEvents(g, n) ==
  IF Registered(g, n)
  THEN <<Ev("nodeUpdate", n, Undefined), Ev("graphUpdate", Undefined, Undefined)>>
  ELSE <<>>

OneListenerWhileRegistered ==
  \A n \in Objs :
    HasListenerApi(n) =>
      /\ listeners[n] = (IF Registered(G, n) THEN 1 ELSE 0)
      /\ emitNodeUpdated(G, n, listeners[n]).events = ForwardedEvents(G, n)

\* ------------------------------------------------- the structure builders
\* the entries directly below an entry of a snapshot
Children(data) ==
  (IF "targets" \in DOMAIN data THEN data.targets ELSE <<>>)
    \o (IF "sources" \in DOMAIN data THEN data.sources ELSE <<>>)

RECURSIVE IdsBelow(_)
IdsBelow(data) ==
  UNION {{Children(data)[k].id} \cup IdsBelow(Children(data)[k]) :
           k \in 1..Len(Children(data))}

RECURSIVE NoSelfDescendant(_)
NoSelfDescendant(data) ==
  /\ data.id \notin IdsBelow(data)
  /\ \A k \in 1..Len(Children(data)) : NoSelfDescendant(Children(data)[k])

\* no entry of the snapshot, at any level, has the field
RECURSIVE NoField(_, _)
NoField(data, field) ==
  /\ field \notin DOMAIN data
  /\ \A k \in 1..Len(Children(data)) : NoField(Children(data)[k], field)

RECURSIVE Height(_)
Height(data) ==
  IF Children(data) = <<>> THEN 0
  ELSE 1 + CHOOSE h \in 0..Cardinality(StructObjs) :
             /\ \E k \in 1..Len(Children(data)) : Height(Children(data)[k]) = h
             /\ \A k \in 1..Len(Children(data)) : Height(Children(data)[k]) <= h

\* getNodeStructure has resolved: the snapshot the caller receives
Resolved == calls # <<>> /\ calls[1].pc = "resolved"

Rejected == calls # <<>> /\ calls[1].pc = "rejected"

\* the graph has a cycle through all three nodes
ThreeCycle ==
  \E x, y, z \in StructObjs :
    /\ x # y /\ y # z /\ x # z
    /\ Has(getTargets(G, x), y) /\ Has(getTargets(G, y), z) /\ Has(getTargets(G, z), x)

\* C15: on every graph, cycles and self-loops included, getEdgeStructure(n)
\* and getNodeStructure(n, targetDepth, sourceDepth) terminate, and in the
\* tree they yield no node is a descendant of itself.
CycleSafety ==
  /\ [](calls = <<>> => \A n \in StructObjs : NoSelfDescendant(getEdgeStructure(G, n)))
  /\ [](Resolved => NoSelfDescendant(calls[1].data))
  /\ [](\A i \in 1..Len(calls) : \A k \in 1..Len(calls) :
          calls[k].parent = i => k > i /\ calls[k].node # calls[i].node)
  /\ (calls # <<>>) ~> (calls = <<>>)

\* a snapshot of full depth in both directions has resolved on a 3-node cycle
CycleSafetyWitness ==
  /\ ThreeCycle
  /\ Resolved
  /\ calls[1].targetDepth = MaxDepth /\ calls[1].sourceDepth = MaxDepth
  /\ Height(calls[1].data) >= 2
  /\ Height(getEdgeStructure(G, calls[1].node)) >= 2

\* C16: getNodeStructure(node, 0, -1) on a node with both outgoing and
\* incoming edges yields a snapshot with the node's type, id and properties,
\* without a targets field and without a sources field.
DepthZero ==
  Resolved /\ calls[1].targetDepth = 0 /\ calls[1].sourceDepth = -1
    /\ getTargets(G, calls[1].node) # <<>> /\ getSources(G, calls[1].node) # <<>>
    => /\ {"type", "id", "props"} \subseteq DOMAIN calls[1].data
       /\ calls[1].data.type = nodeType(calls[1].node)
       /\ calls[1].data.id = getNodeId(calls[1].node)
       /\ "targets" \notin DOMAIN calls[1].data
       /\ "sources" \notin DOMAIN calls[1].data

\* C17: a negative targetDepth leaves every entry of the snapshot, at every
\* level, without a targets field, and a negative sourceDepth leaves every
\* entry without a sources field, whatever the other depth is.
NegativeDepthDisables ==
  Resolved =>
    /\ calls[1].targetDepth < 0 => NoField(calls[1].data, "targets")
    /\ calls[1].sourceDepth < 0 => NoField(calls[1].data, "sources")

\* sources of sources are expanded, each with outgoing edges, none with targets
NegativeDepthDisablesWitness ==
  /\ Resolved
  /\ calls[1].targetDepth < 0 /\ calls[1].sourceDepth = MaxDepth
  /\ Height(calls[1].data) >= 2
  /\ \A k \in 1..Len(calls) : getTargets(G, calls[k].node) # <<>>

\* the nodes whose getNodeProps has rejected
PropsFailed == {calls[k].node : k \in {j \in 1..Len(calls) :
                  calls[j].pc = "rejected" /\ calls[j].error = calls[j].node
                    /\ "props" \notin DOMAIN calls[j].data}}

\* C18: when getNodeProps of a visited node rejects or throws, the
\* getNodeStructure call fails with that error: a snapshot is returned only
\* when every visited node has yielded its properties, a failed accessor is
\* not called again, and a failure always reaches the caller as a rejection
\* carrying the error of a node that failed.
FailsAsAWhole ==
  /\ [](Resolved => \A k \in 1..Len(calls) :
                       calls[k].pc = "resolved" /\ "props" \in DOMAIN calls[k].data)
  /\ [](Rejected => calls[1].error \in PropsFailed)
  /\ [][\A k \in 1..Len(calls) :
          calls[k].pc = "rejected" =>
            calls' = <<>> \/ (Len(calls') >= k /\ calls'[k] = calls[k])]_vars
  /\ (PropsFailed # {}) ~> Rejected

\* a node two levels down has failed and the call as a whole has failed with it
FailsAsAWholeWitness ==
  /\ Rejected
  /\ \E k \in 1..Len(calls) :
       /\ calls[k].parent > 1
       /\ calls[k].error = calls[k].node
       /\ calls[1].error = calls[k].node
  /\ \E k \in 1..Len(calls) : calls[k].pc = "resolved"

TimerResetBySetProps ==
  /\ burst # <<>> =>
       emitTimeout = <<burst[Len(burst)].at + burst[Len(burst)].emitDelay>>
  /\ \A i \in 1..Len(notified) :
       notified[i].at = notified[i].last.at + notified[i].last.emitDelay

\* ------------------------------------------------- the immediate notifier
\* the properties of the calls that asked for a notification, in call order
RECURSIVE Announced(_)
Announced(cs) ==
  IF cs = <<>> THEN <<>>
  ELSE IF Head(cs).emitNodeUpdated THEN <<Head(cs).props>> \o Announced(Tail(cs))
  ELSE Announced(Tail(cs))

\* C21: every setNodeProps(props) call replaces the stored properties and
\* emits exactly one nodeUpdated before it returns, its listener reading the
\* new properties, unless emitNodeUpdated = false is passed, in which case the
\* properties are replaced and nothing is emitted; with no call there is no
\* notification.
ImmediateNotification ==
  /\ \A props \in PropsValues :
       /\ setNodeProps(EventNode, props, TRUE).nodeProps = props
       /\ setNodeProps(EventNode, props, TRUE).heard = Append(heard, props)
       /\ setNodeProps(EventNode, props, FALSE).nodeProps = props
       /\ setNodeProps(EventNode, props, FALSE).heard = heard
  /\ heard = Announced(asked)
  /\ nodeProps = IF asked = <<>> THEN InitialNodeProps ELSE asked[Len(asked)].props

\* notified calls and a silent one: the last call was silent and changed the
\* properties the listener had read last
ImmediateNotificationWitness ==
  /\ Len(heard) >= 2
  /\ Len(asked) > Len(heard)
  /\ ~asked[Len(asked)].emitNodeUpdated
  /\ nodeProps # heard[Len(heard)]

\* ------------------------------------------------------ absence and flags
\* a call that returned false: the fields are as they were, nothing was emitted
Untouched(r) == r.ret = FALSE => r.g = G

\* C22: a call to addNode, removeNode, addEdge, removeEdge, addEdges or
\* removeEdges that returns false leaves the registry, the type index, both
\* adjacency indices and the listener attachments unchanged and emits no
\* event; the queries on a node or id the manager holds nothing for return an
\* empty result, getNodeById undefined.
NotFoundIsNoError ==
  /\ \A n \in Objs, e \in BOOLEAN :
       /\ Untouched(addNode(G, n, e))
       /\ Untouched(removeNode(G, n, e))
  /\ \A s, t \in Objs, e \in BOOLEAN :
       /\ Untouched(addEdge(G, s, t, e))
       /\ Untouched(removeEdge(G, s, t, e))
  /\ \A S, T \in Batches, e \in BOOLEAN :
       Len(S) * Len(T) <= MaxBatch =>
         /\ Untouched(addEdges(G, S, T, e))
         /\ Untouched(removeEdges(G, S, T, e))
  /\ \A id \in Ids :
       (\A n \in Objs : getNodeId(n) = id => ~Registered(G, n))
         => getNodeById(G, id) = Undefined
  /\ \A n \in Objs :
       (\A m \in Objs : ~Has(getTargets(G, m), n) /\ ~Has(getSources(G, m), n))
         => getTargets(G, n) = <<>> /\ getSources(G, n) = <<>>

\* C23: a call to addNode, removeNode, addEdge, removeEdge, addEdges or
\* removeEdges that is passed emitGraphUpdate = false emits no graphUpdate
\* event at all, also when the node removed or replaced has edges.
Silent(r) == CountType(r.g.events, "graphUpdate") = 0

NoGraphUpdateWhenSuppressed ==
  /\ \A n \in Objs :
       /\ Silent(addNode(G, n, FALSE))
       /\ Silent(removeNode(G, n, FALSE))
  /\ \A s, t \in Objs :
       /\ Silent(addEdge(G, s, t, FALSE))
       /\ Silent(removeEdge(G, s, t, FALSE))
  /\ \A S, T \in Batches :
       Len(S) * Len(T) <= MaxBatch =>
         /\ Silent(addEdges(G, S, T, FALSE))
         /\ Silent(removeEdges(G, S, T, FALSE))

\* ------------------------------------------------- one descent per node
\* how many entries of the tree for the id have a targets or a sources field
RECURSIVE Expansions(_, _)
RECURSIVE SumExpansions(_, _)
Expansions(data, id) ==
  (IF data.id = id /\ ("targets" \in DOMAIN data \/ "sources" \in DOMAIN data)
   THEN 1 ELSE 0) + SumExpansions(Children(data), id)

SumExpansions(items, id) ==
  IF items = <<>> THEN 0
  ELSE Expansions(Head(items), id) + SumExpansions(Tail(items), id)

\* C24: within one traversal by getEdgeStructure or getNodeStructure a node
\* already visited is not entered again for further descent: of the
\* occurrences of a node in the result tree at most one has a targets or a
\* sources field.
SingleDescent ==
  /\ calls = <<>> =>
       \A n \in WideObjs, id \in WideIds : Expansions(getEdgeStructure(G, n), id) <= 1
  /\ Resolved /\ ~mutated =>
       \A id \in WideIds : Expansions(calls[1].data, id) <= 1

Intact(x) ==
  /\ \A n \in ObserverObjs :
       n \in x.nodeTypeIndex[nodeType(n)] <=> x.nodes[getNodeId(n)] = n
  /\ \A A, B \in ObserverObjs :
       Has(x.targetLinkIndex[A], B) <=> Has(x.sourceLinkIndex[B], A)
  /\ \A A, B \in ObserverObjs :
       Has(x.targetLinkIndex[A], B) =>
         x.nodes[getNodeId(A)] = A /\ x.nodes[getNodeId(B)] = B

EveryEmitIntact(r) == \A i \in 1..Len(r.g.at) : Intact(r.g.at[i])

\* C26: at every point where the manager emits an event inside a mutating
\* call the index set is not half-updated: the type index mirrors the
\* registry, the two adjacency indices are inverses, and every edge endpoint
\* is registered.
AtomicForObservers ==
  /\ \A n \in ObserverObjs, e \in BOOLEAN :
       /\ EveryEmitIntact(addNode(G, n, e))
       /\ EveryEmitIntact(removeNode(G, n, e))
  /\ \A s, t \in ObserverObjs, e \in BOOLEAN :
       /\ EveryEmitIntact(addEdge(G, s, t, e))
       /\ EveryEmitIntact(removeEdge(G, s, t, e))

\* --------------------------------------------------- removal of a stranger
\* y after the call as before it: registered, in its type bucket, with the
\* edges it had to and from the nodes other than x, its callback attached
Undisturbed(r, x, y) ==
  /\ getNodeById(r.g, getNodeId(y)) = y
  /\ (y \in getNodesByType(r.g, nodeType(y))) <=> (y \in getNodesByType(G, nodeType(y)))
  /\ \A m \in Objs \ {x} :
       /\ Has(getTargets(r.g, y), m) <=> Has(getTargets(G, y), m)
       /\ Has(getSources(r.g, y), m) <=> Has(getSources(G, y), m)
  /\ r.g.listeners[y] = listeners[y]
  /\ (y \in r.g.eventCallbacks) <=> (y \in eventCallbacks)

\* C27: removeNode(x) with an object x that is not the one registered under
\* its id, a different object y holding that id, does not disturb y:
\* getNodeById(id) is still y, y stays in its type bucket, y's edges are
\* unchanged and y's forwarding listener stays attached.
RemoveStrangerFrame ==
  \A x, y \in Objs, e \in BOOLEAN :
    x # y /\ getNodeId(x) = getNodeId(y) /\ Registered(G, y)
      => Undisturbed(removeNode(G, x, e), x, y)

\* C28: no update of the debounced notifier is lost: whenever no timer is
\* armed there is no setProps call that has not been followed by a
\* notification, and every setProps call, those made from inside a
\* nodeUpdated listener included, is eventually followed by one.
NoUpdateLost ==
  /\ [](emitTimeout = <<>> => burst = <<>>)
  /\ \A t \in 0..MaxTime :
       (burst # <<>> /\ burst[Len(burst)].at = t) ~> (burst = <<>> \/ burst[1].at > t)

\* ------------------------------------------------ the edge structure's reach
\* the nodes one edge away from a node of S, in either direction, added to S
Grow(g, S) ==
  S \cup {m \in StructObjs :
            \E n \in S : Has(getTargets(g, n), m) \/ Has(getTargets(g, m), n)}

\* the nodes joined to a node of S by a path that may follow edges either way
RECURSIVE Component(_, _)
Component(g, S) == IF Grow(g, S) = S THEN S ELSE Component(g, Grow(g, S))

\* the ids occurring in a tree
IdsIn(data) == {data.id} \cup IdsBelow(data)

\* C29: for a registered node n, the ids occurring in getEdgeStructure(n) are
\* exactly those of the nodes joined to n by a path that may follow edges in
\* either direction: each of them occurs, and no other id does.
WeakComponent ==
  calls = <<>> =>
    \A n \in StructObjs :
      Registered(G, n) =>
        IdsIn(getEdgeStructure(G, n)) = {getNodeId(m) : m \in Component(G, {n})}

\* n has one incoming edge and nothing else, and its source has another
\* target: the third node is reached by going against an edge and then along
\* one
WeakComponentWitness ==
  /\ calls = <<>>
  /\ \E n, m, k \in StructObjs :
       /\ n # m /\ m # k /\ n # k
       /\ Registered(G, n)
       /\ getTargets(G, n) = <<>> /\ getSources(G, n) = <<m>>
       /\ Has(getTargets(G, m), k) /\ getTargets(G, k) = <<>>
       /\ IdsIn(getEdgeStructure(G, n)) = StructIds

====
